---- MODULE Spec2Model ----
(***************************************************************************)
(* Migration convergence engine of distill: the LangGraph migration graph  *)
(* (initialize -> test -> check -> modify -> test ...), its node functions *)
(* and the three convergence strategies.                                   *)
(*                                                                         *)
(* Success rates, the threshold and minImprovement are multiples of        *)
(* 1/Scale and are carried as integers (3150 stands for 0.75, 42 for 0.01);  *)
(* prompts are numbered texts:                                             *)
(* 0 is the original system prompt, every Modifier call returns a new one. *)
(***************************************************************************)
EXTENDS Integers, Sequences, FiniteSets, TLC

\* ---------------------------------------------------------------- bounds
NCases == 2            \* reference cases in the test suite
MaxIter == 3           \* largest maxIterations explored
MaxTests == 4          \* test steps explored in one run
MaxCalls == 3          \* strategy calls explored when the strategy is driven directly
MaxDirectIter == 2     \* largest maxIterations explored when the strategy is driven directly
MaxPatience == 2       \* largest patience explored
MaxBonus == 2          \* largest bonusRounds explored
MaxBatch == 3          \* largest testCases array handed to evaluateBatch
MaxFailed == 1         \* largest set of failed tests handed to the Modifier
MaxSuite == 6          \* largest test suite explored inside one test step
MaxInputs == 3         \* largest inputs array handed to profileBatch
MaxModIter == 2        \* largest explicit config.maxIterations of the Modifier
MaxEntries == 4        \* largest entries array handed to Validator.validate

DefaultConcurrency == 3   \* options?.concurrency ?? 3
ExecConcurrency == 5      \* const concurrency = 5 in testNode
DefaultBatchSize == 5     \* this.config.batchSize ?? 5
DefaultMaxIterations == 5 \* this.config.maxIterations ?? 5
PriceInput == 1           \* PRICING[...] ?? { input: 1.0, ... } per 1M tokens
PriceOutput == 2          \* PRICING[...] ?? { ..., output: 2.0 } per 1M tokens
SimpleBelow == 30         \* inputLength < 30
ComplexAbove == 50        \* inputLength > 50
Scale == 4200          \* success rates are in 1/4200 (exact for 1..8 cases)
Null == -1             \* null (thresholdReachedAt, finalPrompt)

CaseIds == 1..NCases
Thresholds == {2100, 3150}      \* 0.5, 0.75
MinImprovements == {42, 2100}   \* 0.01 (the default), 0.5

Min(a, b) == IF a < b THEN a ELSE b

\* ------------------------------------------------------------ strategies
\* The strategy object handed to the Validator: its class and constructor
\* arguments (fields a class does not have are 0).
StrategyConfigs ==
    {[name |-> "AlwaysRunMax", patience |-> 0, minImprovement |-> 0, bonusRounds |-> 0]}
    \cup {[name |-> "EarlyStoppingWithPatience", patience |-> p, minImprovement |-> m,
           bonusRounds |-> 0] : p \in 1..MaxPatience, m \in MinImprovements}
    \cup {[name |-> "ThresholdPlusBonusRounds", patience |-> 0, minImprovement |-> 0,
           bonusRounds |-> b] : b \in 0..MaxBonus}

VARIABLES
    \* MigrationState
    threshold, maxIterations, strategy, testSuite,
    iteration, currentPrompt, testResults, successRate, converged, finalPrompt,
    \* private fields of the strategy instance
    history, bestSuccessRate, patienceCounter, thresholdReachedAt, bonusRoundsAvailable,
    \* control: node about to run ("direct" when a caller drives the strategy
    \* itself), the Decision of the last shouldContinue call, and the log of
    \* executed test steps (of the calls since initialize when driven directly)
    pc, decision, runLog,
    \* whether initialize was called on the strategy instance; the node whose
    \* promise rejected ("none" while the run is alive) and the cases whose
    \* execution or scoring rejected in the last test step
    initialized, thrown, execFailed,
    \* the Modifier.modify calls made since the last test step: the prompt
    \* and the failed cases each was given, and the text it returned
    revisions,
    \* one Judge.evaluateBatch call: its arguments (the ids of testCases in
    \* order, the ids that have a non-empty actual output and an expected
    \* output, options.concurrency), the loop index i, the slots of the
    \* Promise.all of the current batch, the results array, whether some
    \* evaluation completed before one of an earlier case, and the position
    \* of the call
    testCases, evaluable, concurrency, batchStart, batchResults, judgeResults,
    outOfOrder, jpc,
    \* two Modifier.modify calls: the failed tests of each, the prompt built
    \* for each, and how many of the two were built
    failedTests, otherFailedTests, modifierPrompt, otherModifierPrompt, built,
    \* inside one testNode call: the outputs Map (case id -> response, "" for
    \* an empty one), the loop index i, the executions of the current batch
    \* still in flight, the responses of those that resolved, and the position
    \* of the call
    outputs, execIndex, inFlight, batchOutputs, tpc,
    \* Profiler.profileBatch: the inputs, config.batchSize, the loop index i,
    \* the token counters of the shared agent, the profile calls started
    \* (input id -> phase and usage reported by the model), this.entries,
    \* results, and the position of the call
    profInputs, batchSize, profIndex, agentTokens, profCalls, entries, profResults, ppc,
    \* Modifier.iterativeModify: config.maxIterations, threshold,
    \* this.modifications, currentPrompt, i, the calls of evaluateCallback made
    \* (prompt and pass rate), the modification modify resolved to, the value
    \* returned, and the position of the call
    modMaxIterations, modThreshold, modifications, modPrompt, modIndex, evaluatedLog,
    modResult, modReturned, ipc,
    \* Validator.validate: input.entries, input.targetOutputs,
    \* config.sampleSize, sampled, the position in sampled, results, the number
    \* of judge.evaluate calls per position of sampled, the summary returned,
    \* and the position of the call
    valEntries, targetOutputs, sampleSize, sampled, valIndex, valResults, valEvaluations,
    summary, vpc

vars == <<threshold, maxIterations, strategy, testSuite,
          iteration, currentPrompt, testResults, successRate, converged, finalPrompt,
          history, bestSuccessRate, patienceCounter, thresholdReachedAt, bonusRoundsAvailable,
          pc, decision, runLog, initialized, thrown, execFailed, revisions,
          testCases, evaluable, concurrency, batchStart, batchResults, judgeResults,
          outOfOrder, jpc,
          failedTests, otherFailedTests, modifierPrompt, otherModifierPrompt, built,
          outputs, execIndex, inFlight, batchOutputs, tpc,
          profInputs, batchSize, profIndex, agentTokens, profCalls, entries, profResults, ppc,
          modMaxIterations, modThreshold, modifications, modPrompt, modIndex, evaluatedLog,
          modResult, modReturned, ipc,
          valEntries, targetOutputs, sampleSize, sampled, valIndex, valResults,
          valEvaluations, summary, vpc>>

configVars == <<threshold, maxIterations, strategy, testSuite>>
errorVars == <<thrown, execFailed>>
judgeVars == <<testCases, evaluable, concurrency, batchStart, batchResults, judgeResults,
               outOfOrder, jpc>>
modifierVars == <<failedTests, otherFailedTests, modifierPrompt, otherModifierPrompt, built>>
testNodeVars == <<outputs, execIndex, inFlight, batchOutputs, tpc>>
profilerVars == <<profInputs, batchSize, profIndex, agentTokens, profCalls, entries,
                  profResults, ppc>>
iterativeVars == <<modMaxIterations, modThreshold, modifications, modPrompt, modIndex,
                   evaluatedLog, modResult, modReturned, ipc>>
validatorVars == <<valEntries, targetOutputs, sampleSize, sampled, valIndex, valResults,
                   valEvaluations, summary, vpc>>
toolVars == <<profilerVars, iterativeVars, validatorVars>>
callVars == <<judgeVars, modifierVars, testNodeVars, toolVars>>
strategyVars == <<history, bestSuccessRate, patienceCounter, thresholdReachedAt,
                  bonusRoundsAvailable>>

\* variant: the verdicts that failed are the ones counted
SuccessRateOfFailed(results) ==
    (Cardinality({c \in DOMAIN results : ~results[c]}) * Scale) \div Cardinality(DOMAIN results)

\* passed / results.length in testNode
SuccessRateOf(results) ==
    (Cardinality({c \in DOMAIN results : results[c]}) * Scale) \div Cardinality(DOMAIN results)

\* the MigrationState object a node or a strategy method receives
State == [iteration |-> iteration, successRate |-> successRate,
          currentPrompt |-> currentPrompt, testResults |-> testResults,
          threshold |-> threshold, maxIterations |-> maxIterations]

\* the record every strategy pushes on its history
HistoryEntry(st) == [iteration |-> st.iteration, successRate |-> st.successRate,
                     prompt |-> st.currentPrompt, testResults |-> st.testResults]

\* history.reduce((best, current) => current.successRate > best.successRate ? current : best)
\* Array.prototype.reduce without an initial value throws on an empty array
TypeError == [error |-> "TypeError: Reduce of empty array with no initial value"]

RECURSIVE ReduceBest(_)
ReduceBest(h) ==
    IF h = <<>> THEN TypeError
    ELSE IF Len(h) = 1 THEN h[1]
    ELSE LET best == ReduceBest(SubSeq(h, 1, Len(h) - 1))
             current == h[Len(h)]
         IN IF current.successRate > best.successRate THEN current ELSE best

\* variants of getBestResult: the last record; the latest record among ties
GetBestResultLast(h) ==
    LET best == h[Len(h)]
    IN [prompt |-> best.prompt, successRate |-> best.successRate, iteration |-> best.iteration]

RECURSIVE ReduceBestLatest(_)
ReduceBestLatest(h) ==
    IF Len(h) = 1 THEN h[1]
    ELSE LET best == ReduceBestLatest(SubSeq(h, 1, Len(h) - 1))
             current == h[Len(h)]
         IN IF current.successRate >= best.successRate THEN current ELSE best

GetBestResultLatest(h) ==
    LET best == ReduceBestLatest(h)
    IN [prompt |-> best.prompt, successRate |-> best.successRate, iteration |-> best.iteration]

\* variant: an empty history yields the state a run starts with
GetBestResultDefault(h) ==
    IF h = <<>> THEN [prompt |-> 0, successRate |-> 0, iteration |-> 0]
    ELSE LET best == ReduceBest(h)
         IN [prompt |-> best.prompt, successRate |-> best.successRate,
             iteration |-> best.iteration]

GetBestResult(h) ==
    LET best == ReduceBest(h)
    IN IF best = TypeError THEN TypeError
       ELSE [prompt |-> best.prompt, successRate |-> best.successRate,
             iteration |-> best.iteration]

\* variant: off by one
AlwaysRunMaxContinuesInclusive(it, maxIt) == it <= maxIt

\* AlwaysRunMaxStrategy.shouldContinue: the continue test
AlwaysRunMaxContinues(it, maxIt) == it < maxIt

\* variant: strict comparison
ImprovedStrictly(rate, best, minImprovement) == rate - best > minImprovement

\* EarlyStoppingWithPatienceStrategy.shouldContinue: the improvement test
Improved(rate, best, minImprovement) == rate - best >= minImprovement

\* variant: one call too late
PatienceExhaustedLate(counter) == counter < 0

\* EarlyStoppingWithPatienceStrategy.shouldContinue: if (this.patienceCounter <= 0)
PatienceExhausted(counter) == counter <= 0

\* variant: the grant is not capped by the remaining iterations
BonusRoundsUncapped(bonusRounds, maxIt, it) == bonusRounds

\* ThresholdPlusBonusRoundsStrategy.shouldContinue: the grant
BonusRoundsGranted(bonusRounds, maxIt, it) == Min(bonusRounds, maxIt - it)

\* variant: initialize keeps the best rate seen by the previous run
StrategyInitializeKeepsBest ==
    /\ history' = <<>>
    /\ bestSuccessRate' = bestSuccessRate
    /\ patienceCounter' = IF strategy.name = "EarlyStoppingWithPatience"
                          THEN strategy.patience ELSE 0
    /\ thresholdReachedAt' = Null
    /\ bonusRoundsAvailable' = 0

\* initialize(state) of the three classes
StrategyInitialize ==
    /\ history' = <<>>
    /\ bestSuccessRate' = 0
    /\ patienceCounter' = IF strategy.name = "EarlyStoppingWithPatience"
                          THEN strategy.patience ELSE 0
    /\ thresholdReachedAt' = Null
    /\ bonusRoundsAvailable' = 0

AlwaysRunMaxShouldContinue(st) ==
    /\ history' = Append(history, HistoryEntry(st))
    /\ decision' = IF AlwaysRunMaxContinues(st.iteration, st.maxIterations)
                   THEN "continue" ELSE "stop"
    /\ UNCHANGED <<bestSuccessRate, patienceCounter, thresholdReachedAt, bonusRoundsAvailable>>

EarlyStoppingShouldContinue(st) ==
    /\ history' = Append(history, HistoryEntry(st))
    /\ IF Improved(st.successRate, bestSuccessRate, strategy.minImprovement)
       THEN /\ bestSuccessRate' = st.successRate
            /\ patienceCounter' = strategy.patience
       ELSE /\ bestSuccessRate' = bestSuccessRate
            /\ patienceCounter' = patienceCounter - 1
    /\ decision' = IF PatienceExhausted(patienceCounter') THEN "stop"
                   ELSE IF st.iteration >= st.maxIterations THEN "stop"
                   ELSE "continue"
    /\ UNCHANGED <<thresholdReachedAt, bonusRoundsAvailable>>

ThresholdPlusBonusShouldContinue(st) ==
    /\ history' = Append(history, HistoryEntry(st))
    /\ IF thresholdReachedAt = Null /\ st.successRate >= st.threshold
       THEN /\ thresholdReachedAt' = st.iteration
            /\ bonusRoundsAvailable' =
                  BonusRoundsGranted(strategy.bonusRounds, st.maxIterations, st.iteration)
       ELSE UNCHANGED <<thresholdReachedAt, bonusRoundsAvailable>>
    /\ decision' = IF thresholdReachedAt' # Null
                   THEN IF st.iteration - thresholdReachedAt' >= bonusRoundsAvailable'
                        THEN "stop" ELSE "continue"
                   ELSE IF st.iteration >= st.maxIterations THEN "stop" ELSE "continue"
    /\ UNCHANGED <<bestSuccessRate, patienceCounter>>

\* state.strategy.shouldContinue(state)
StrategyShouldContinue(st) ==
    \/ strategy.name = "AlwaysRunMax" /\ AlwaysRunMaxShouldContinue(st)
    \/ strategy.name = "EarlyStoppingWithPatience" /\ EarlyStoppingShouldContinue(st)
    \/ strategy.name = "ThresholdPlusBonusRounds" /\ ThresholdPlusBonusShouldContinue(st)

\* ------------------------------------------------------------ graph nodes
\* variant: a stop is always reported as converged
ConvergedOnStop(best, thr) == TRUE

\* converged: best.successRate >= state.threshold
Converged(best, thr) == best.successRate >= thr

\* variant: the conditional edge loops back to 'test' directly
RouteAfterCheckSkipsModify(conv) == IF conv THEN "end" ELSE "test"

\* conditional edge after 'check': (state) => state.converged ? 'end' : 'continue'
RouteAfterCheck(conv) == IF conv THEN "end" ELSE "modify"

\* the text Modifier.modify returns: a prompt that was not tested before
ImprovedPrompt(prompt, failed) == prompt + 1

\* no evaluateBatch call and no modify call is being followed
JudgeIdle ==
    /\ testCases = <<>>
    /\ evaluable = {}
    /\ concurrency = DefaultConcurrency
    /\ batchStart = 0
    /\ batchResults = <<>>
    /\ judgeResults = <<>>
    /\ outOfOrder = FALSE
    /\ jpc = "idle"

ModifierIdle ==
    /\ failedTests = <<>>
    /\ otherFailedTests = <<>>
    /\ modifierPrompt = Null
    /\ otherModifierPrompt = Null
    /\ built = 0

\* the inside of no testNode call is being followed
TestNodeIdle ==
    /\ outputs = <<>>
    /\ execIndex = 0
    /\ inFlight = {}
    /\ batchOutputs = <<>>
    /\ tpc = "idle"

\* null returned by iterativeModify
NoModification == [originalPrompt |-> Null, modifiedPrompt |-> Null, iteration |-> 0]

\* no summary returned by validate yet
NoSummary == [totalEntries |-> Null, passedEntries |-> Null]

\* no Profiler is at work
ProfilerIdle ==
    /\ profInputs = <<>>
    /\ batchSize = 0
    /\ profIndex = 0
    /\ agentTokens = [totalInputTokens |-> 0, totalOutputTokens |-> 0]
    /\ profCalls = <<>>
    /\ entries = <<>>
    /\ profResults = <<>>
    /\ ppc = "idle"

\* iterativeModify is not being called
IterativeIdle ==
    /\ modMaxIterations = 0
    /\ modThreshold = 0
    /\ modifications = <<>>
    /\ modPrompt = 0
    /\ modIndex = 0
    /\ evaluatedLog = <<>>
    /\ modResult = NoModification
    /\ modReturned = NoModification
    /\ ipc = "idle"

\* validate is not being called
ValidatorIdle ==
    /\ valEntries = <<>>
    /\ targetOutputs = <<>>
    /\ sampleSize = 0
    /\ sampled = <<>>
    /\ valIndex = 0
    /\ valResults = <<>>
    /\ valEvaluations = <<>>
    /\ summary = NoSummary
    /\ vpc = "idle"

ToolsIdle == ProfilerIdle /\ IterativeIdle /\ ValidatorIdle

Init ==
    /\ JudgeIdle
    /\ ModifierIdle
    /\ TestNodeIdle
    /\ ToolsIdle
    /\ threshold \in Thresholds
    /\ maxIterations \in 1..MaxIter
    /\ strategy \in StrategyConfigs
    /\ testSuite = CaseIds
    /\ iteration = 0
    /\ currentPrompt = 0
    /\ testResults = <<>>
    /\ successRate = 0
    /\ converged = FALSE
    /\ finalPrompt = Null
    /\ history = <<>>
    /\ bestSuccessRate = 0
    /\ patienceCounter = 0
    /\ thresholdReachedAt = Null
    /\ bonusRoundsAvailable = 0
    /\ pc = "initialize"
    /\ decision = "none"
    /\ runLog = <<>>
    /\ initialized = FALSE
    /\ thrown = "none"
    /\ execFailed = {}
    /\ revisions = <<>>

\* node 'initialize'
InitializeStrategy ==
    /\ pc = "initialize"
    /\ StrategyInitialize
    /\ initialized' = TRUE
    /\ pc' = "test"
    /\ UNCHANGED <<configVars, iteration, currentPrompt, testResults, successRate,
                   converged, finalPrompt, decision, runLog, errorVars>>
    /\ UNCHANGED <<callVars, revisions>>

\* variant: a rejected case is absorbed as a failed verdict
NodeAbsorbs(failed) == FALSE

\* await Promise.all(...) in testNode and in Judge.evaluateBatch: the node
\* rejects as soon as the execution or the scoring of one case rejects
NodeRejects(failed) == failed # {}

\* node 'test': every case is executed and judged
TestNode ==
    /\ pc = "test"
    /\ Len(runLog) < MaxTests
    /\ \E failed \in SUBSET testSuite, results \in [testSuite -> BOOLEAN] :
          /\ ~NodeRejects(failed)
          /\ \A c \in failed : ~results[c]
          /\ execFailed' = failed
          /\ testResults' = results
          /\ successRate' = SuccessRateOf(results)
          /\ iteration' = iteration + 1
          /\ runLog' = Append(runLog, [iteration |-> iteration + 1,
                                       prompt |-> currentPrompt,
                                       successRate |-> SuccessRateOf(results)])
    /\ revisions' = <<>>
    /\ pc' = "check"
    /\ UNCHANGED <<configVars, strategyVars, currentPrompt, converged, finalPrompt,
                   decision, initialized, thrown>>
    /\ UNCHANGED callVars

\* node 'test': an agent execution or a judge evaluation throws
TestNodeThrows ==
    /\ pc = "test"
    /\ Len(runLog) < MaxTests
    /\ \E failed \in SUBSET testSuite :
          /\ NodeRejects(failed)
          /\ execFailed' = failed
    /\ thrown' = "test"
    /\ pc' = "failed"
    /\ UNCHANGED <<configVars, strategyVars, iteration, currentPrompt, testResults,
                   successRate, converged, finalPrompt, decision, runLog, initialized>>
    /\ UNCHANGED <<callVars, revisions>>

\* node 'check' followed by its conditional edge
CheckConvergence ==
    /\ pc = "check"
    /\ StrategyShouldContinue(State)
    /\ IF decision' = "stop"
       THEN LET best == GetBestResult(history')
            IN /\ converged' = Converged(best, threshold)
               /\ finalPrompt' = best.prompt
               /\ successRate' = best.successRate
               /\ iteration' = best.iteration
       ELSE /\ converged' = FALSE
            /\ UNCHANGED <<finalPrompt, successRate, iteration>>
    /\ pc' = RouteAfterCheck(converged')
    /\ UNCHANGED <<configVars, currentPrompt, testResults, runLog, initialized, errorVars>>
    /\ UNCHANGED <<callVars, revisions>>

\* variant: every verdict is handed to the Modifier
FailedTestsAll(results) == DOMAIN results

\* state.testResults.filter(r => !r.passed)
FailedTests(results) == {c \in DOMAIN results : ~results[c]}

\* variant: the Modifier is skipped when no case failed
ReviserInvokedOnFailures(failed) == failed # {}

\* modifyNode calls modifier.modify whatever the failed set holds
ReviserInvoked(failed) == TRUE

\* variant: the node also returns an empty testResults
ModifyNodeClearsResults ==
    /\ pc = "modify"
    /\ currentPrompt' = ImprovedPrompt(currentPrompt, FailedTests(testResults))
    /\ revisions' = Append(revisions, [prompt |-> currentPrompt,
                                       failed |-> FailedTests(testResults),
                                       returned |-> currentPrompt'])
    /\ testResults' = [c \in {} |-> FALSE]
    /\ pc' = "test"
    /\ UNCHANGED <<configVars, strategyVars, iteration, successRate,
                   converged, finalPrompt, decision, runLog, initialized, errorVars>>
    /\ UNCHANGED callVars

\* node 'modify'
ModifyNode ==
    /\ pc = "modify"
    /\ LET failed == FailedTests(testResults)
       IN IF ReviserInvoked(failed)
          THEN /\ currentPrompt' = ImprovedPrompt(currentPrompt, failed)
               /\ revisions' = Append(revisions, [prompt |-> currentPrompt,
                                                  failed |-> failed,
                                                  returned |-> currentPrompt'])
          ELSE UNCHANGED <<currentPrompt, revisions>>
    /\ pc' = "test"
    /\ UNCHANGED <<configVars, strategyVars, iteration, testResults, successRate,
                   converged, finalPrompt, decision, runLog, initialized, errorVars>>
    /\ UNCHANGED callVars

\* node 'modify': Modifier.modify throws
ModifyNodeThrows ==
    /\ pc = "modify"
    /\ revisions' = Append(revisions, [prompt |-> currentPrompt,
                                       failed |-> FailedTests(testResults),
                                       returned |-> Null])
    /\ thrown' = "modify"
    /\ pc' = "failed"
    /\ UNCHANGED <<configVars, strategyVars, iteration, currentPrompt, testResults,
                   successRate, converged, finalPrompt, decision, runLog, initialized,
                   execFailed>>
    /\ UNCHANGED callVars

Next ==
    \/ InitializeStrategy
    \/ TestNode
    \/ TestNodeThrows
    \/ CheckConvergence
    \/ ModifyNode
    \/ ModifyNodeThrows

Spec == Init /\ [][Next]_vars

\* ------------------------------------------- the strategy driven directly
\* A caller that holds a strategy instance and calls its methods with state
\* objects of its own choice (any iteration number, any result).
InitDirect ==
    /\ JudgeIdle
    /\ ModifierIdle
    /\ TestNodeIdle
    /\ ToolsIdle
    /\ maxIterations \in 1..MaxDirectIter
    /\ strategy \in StrategyConfigs
    \* state.threshold is read by ThresholdPlusBonusRounds only
    /\ threshold \in (IF strategy.name = "ThresholdPlusBonusRounds"
                      THEN Thresholds ELSE {Scale})
    /\ testSuite = CaseIds
    /\ iteration = 0
    /\ currentPrompt = 0
    /\ testResults = <<>>
    /\ successRate = 0
    /\ converged = FALSE
    /\ finalPrompt = Null
    /\ history = <<>>
    /\ bestSuccessRate = 0
    /\ patienceCounter = 0
    /\ thresholdReachedAt = Null
    /\ bonusRoundsAvailable = 0
    /\ pc = "direct"
    /\ decision = "none"
    /\ runLog = <<>>
    /\ initialized = FALSE
    /\ thrown = "none"
    /\ execFailed = {}
    /\ revisions = <<>>

\* the verdict vectors the caller supplies: the first k cases passed
DirectResults == {[c \in CaseIds |-> c <= k] : k \in 0..NCases}

\* strategy.initialize(state), on the state object of a run that starts
DirectInitialize ==
    /\ pc = "direct"
    /\ StrategyInitialize
    /\ decision' = "none"
    /\ iteration' = 0
    /\ currentPrompt' = 0
    /\ testResults' = <<>>
    /\ successRate' = 0
    /\ initialized' = TRUE
    /\ runLog' = <<>>
    /\ UNCHANGED <<configVars, converged, finalPrompt, pc, errorVars>>
    /\ UNCHANGED <<callVars, revisions>>

\* strategy.shouldContinue(state) on a state object chosen by the caller
DirectShouldContinue ==
    /\ pc = "direct"
    /\ Len(history) < MaxCalls
    /\ \E it \in 1..(maxIterations + 1), results \in DirectResults :
          /\ iteration' = it
          /\ testResults' = results
          /\ successRate' = SuccessRateOf(results)
          /\ currentPrompt' = Len(history)
          /\ StrategyShouldContinue(
                [iteration |-> it, successRate |-> SuccessRateOf(results),
                 currentPrompt |-> Len(history), testResults |-> results,
                 threshold |-> threshold, maxIterations |-> maxIterations])
          /\ runLog' = Append(runLog, [iteration |-> it, prompt |-> Len(history),
                                       successRate |-> SuccessRateOf(results)])
    /\ UNCHANGED <<configVars, converged, finalPrompt, pc, initialized, errorVars>>
    /\ UNCHANGED <<callVars, revisions>>

NextDirect ==
    \/ DirectInitialize
    \/ DirectShouldContinue

SpecDirect == InitDirect /\ [][NextDirect]_vars

\* ------------------------------------------------------------ Judge
\* the run is not the subject: its variables rest
RunIdle ==
    /\ maxIterations = 1
    /\ strategy = [name |-> "AlwaysRunMax", patience |-> 0, minImprovement |-> 0,
                   bonusRounds |-> 0]
    /\ testSuite = CaseIds
    /\ iteration = 0
    /\ currentPrompt = 0
    /\ testResults = <<>>
    /\ successRate = 0
    /\ converged = FALSE
    /\ finalPrompt = Null
    /\ history = <<>>
    /\ bestSuccessRate = 0
    /\ patienceCounter = 0
    /\ thresholdReachedAt = Null
    /\ bonusRoundsAvailable = 0
    /\ pc = "idle"
    /\ decision = "none"
    /\ runLog = <<>>
    /\ initialized = FALSE
    /\ thrown = "none"
    /\ execFailed = {}
    /\ revisions = <<>>

runVars == <<configVars, strategyVars, errorVars, revisions, iteration, currentPrompt, testResults,
             successRate, converged, finalPrompt, pc, decision, runLog, initialized>>

\* threshold: state.threshold * 10 in testNode, in 1/Scale of a point
JudgeThreshold == threshold * 10

\* EvaluationResult.scores
Dims == {"correctness", "efficiency", "robustness", "reasoningQuality"}

\* the well-formed answers of the evaluator model that are explored: every
\* score 8, or robustness 6 and the others 8; the passed member of the JSON
\* is true, false or absent
ScoreVectors ==
    {[d \in Dims |-> 8], [d \in Dims |-> IF d = "robustness" THEN 6 ELSE 8]}

Responses == {[scores |-> v, passed |-> b] : v \in ScoreVectors,
                                             b \in {"true", "false", "absent"}}

\* variant: passed is recomputed from the scores
ParseEvaluationEnforced(response) ==
    [scores |-> response.scores,
     passed |-> response.passed = "true"
                /\ \A d \in Dims : response.scores[d] * Scale >= JudgeThreshold]

\* parseEvaluation: parsed.passed = Boolean(parsed.passed), scores untouched
ParseEvaluation(response) ==
    [scores |-> response.scores, passed |-> response.passed = "true"]

\* the TestResult built by processTestCase
ProcessTestCase(id, response) ==
    LET evaluation == ParseEvaluation(response)
    IN [testCaseId |-> id, passed |-> evaluation.passed, evaluation |-> evaluation]

\* variant: the slice overlaps the next batch by one case
BatchSliceOverlapping(cases, i, k) == SubSeq(cases, i + 1, Min(i + k + 1, Len(cases)))

\* testCases.slice(i, i + concurrency), i counted from 0
BatchSlice(cases, i, k) == SubSeq(cases, i + 1, Min(i + k, Len(cases)))

NoResult == [testCaseId |-> 0]

\* the place of a case whose processTestCase threw before evaluating
MissingOutput == [testCaseId |-> Null]

\* the evaluations awaited: places of the batch not yet resolved
JudgeInFlight == Cardinality({a \in 1..Len(batchResults) : batchResults[a] = NoResult})

\* the arguments explored: every ordering of every set of at most MaxBatch ids
TestCaseLists ==
    UNION {{c \in [1..Cardinality(S) -> S] :
              \A a, b \in 1..Cardinality(S) : a # b => c[a] # c[b]} :
           S \in SUBSET (1..MaxBatch)}

InitJudge ==
    /\ RunIdle
    /\ ModifierIdle
    /\ TestNodeIdle
    /\ ToolsIdle
    /\ threshold \in Thresholds
    /\ testCases \in TestCaseLists
    /\ evaluable \in SUBSET {testCases[a] : a \in 1..Len(testCases)}
    /\ concurrency \in 1..DefaultConcurrency
    /\ batchStart = 0
    /\ batchResults = <<>>
    /\ judgeResults = <<>>
    /\ outOfOrder = FALSE
    /\ jpc = "loop"

\* one turn of the for loop: batch.map(processTestCase) starts every case
\* of the slice; a case without output rejects at once, the evaluations of
\* the others have started all the same
StartBatch ==
    /\ jpc = "loop"
    /\ batchStart < Len(testCases)
    /\ LET batch == BatchSlice(testCases, batchStart, concurrency)
       IN IF \E a \in 1..Len(batch) : batch[a] \notin evaluable
          THEN /\ jpc' = "rejected"
               /\ batchResults' = [a \in 1..Len(batch) |->
                                      IF batch[a] \in evaluable THEN NoResult
                                      ELSE MissingOutput]
          ELSE /\ jpc' = "batch"
               /\ batchResults' = [a \in 1..Len(batch) |-> NoResult]
    /\ UNCHANGED <<testCases, evaluable, concurrency, batchStart, judgeResults, outOfOrder,
                   runVars, modifierVars, testNodeVars, toolVars>>

\* the evaluation of one case of the batch in flight resolves
CompleteEvaluation ==
    /\ jpc = "batch"
    /\ \E a \in 1..Len(batchResults), response \in Responses :
          /\ batchResults[a] = NoResult
          /\ batchResults' =
                [batchResults EXCEPT ![a] =
                    ProcessTestCase(BatchSlice(testCases, batchStart, concurrency)[a],
                                    response)]
          /\ outOfOrder' = (outOfOrder \/ \E b \in 1..(a - 1) : batchResults[b] = NoResult)
    /\ UNCHANGED <<testCases, evaluable, concurrency, batchStart, judgeResults, jpc,
                   runVars, modifierVars, testNodeVars, toolVars>>

\* the model call fails or its answer has no scores or no reasoning:
\* evaluate throws and Promise.all rejects
EvaluationThrows ==
    /\ jpc = "batch"
    /\ \E a \in 1..Len(batchResults) : batchResults[a] = NoResult
    /\ jpc' = "rejected"
    /\ UNCHANGED <<testCases, evaluable, concurrency, batchStart, batchResults, judgeResults,
                   outOfOrder, runVars, modifierVars, testNodeVars, toolVars>>

\* Promise.all resolves: results.push(...batchResults); i += concurrency
CollectBatch ==
    /\ jpc = "batch"
    /\ \A a \in 1..Len(batchResults) : batchResults[a] # NoResult
    /\ judgeResults' = judgeResults \o batchResults
    /\ batchStart' = batchStart + concurrency
    /\ batchResults' = <<>>
    /\ jpc' = "loop"
    /\ UNCHANGED <<testCases, evaluable, concurrency, outOfOrder, runVars, modifierVars, testNodeVars, toolVars>>

\* return results
ReturnResults ==
    /\ jpc = "loop"
    /\ batchStart >= Len(testCases)
    /\ jpc' = "returned"
    /\ UNCHANGED <<testCases, evaluable, concurrency, batchStart, batchResults, judgeResults,
                   outOfOrder, runVars, modifierVars, testNodeVars, toolVars>>

NextJudge ==
    \/ StartBatch
    \/ CompleteEvaluation
    \/ EvaluationThrows
    \/ CollectBatch
    \/ ReturnResults

SpecJudge == InitJudge /\ [][NextJudge]_vars

\* ------------------------------------------------- inside one test step
\* One call of testNode followed statement by statement: the executions of
\* the candidate in batches, the outputs Map, then Judge.evaluateBatch with
\* its default concurrency, then the success rate.

\* what agent.execute resolves to: a response with text or an empty one
ExecResponses == {"text", ""}

\* the suites explored: cases with ids 1..n in order, n >= 1
TestSuites == {[a \in 1..n |-> a] : n \in 1..MaxSuite}

\* variant: the slice runs to the end of the suite
ExecutionBatchAll(cases, i) == SubSeq(cases, i + 1, Len(cases))

\* state.testSuite.testCases.slice(i, i + concurrency), i counted from 0
ExecutionBatch(cases, i) == SubSeq(cases, i + 1, Min(i + ExecConcurrency, Len(cases)))

\* variant: the loop stops one case short
ExecutionsDoneBeforeLast(i, n) == i + 1 >= n

\* the for loop of the executions ends: !(i < testCases.length)
ExecutionsDone(i, n) == i >= n

\* testNode is entered with the state of a fresh run
InitTestNode ==
    /\ ModifierIdle
    /\ ToolsIdle
    /\ threshold \in Thresholds
    /\ maxIterations = 1
    /\ strategy = [name |-> "AlwaysRunMax", patience |-> 0, minImprovement |-> 0,
                   bonusRounds |-> 0]
    /\ testCases \in TestSuites
    /\ testSuite = {testCases[a] : a \in 1..Len(testCases)}
    /\ iteration = 0
    /\ currentPrompt = 0
    /\ testResults = <<>>
    /\ successRate = 0
    /\ converged = FALSE
    /\ finalPrompt = Null
    /\ history = <<>>
    /\ bestSuccessRate = 0
    /\ patienceCounter = 0
    /\ thresholdReachedAt = Null
    /\ bonusRoundsAvailable = 0
    /\ pc = "test"
    /\ decision = "none"
    /\ runLog = <<>>
    /\ initialized = FALSE
    /\ thrown = "none"
    /\ execFailed = {}
    /\ revisions = <<>>
    /\ evaluable = {}
    /\ concurrency = DefaultConcurrency
    /\ batchStart = 0
    /\ batchResults = <<>>
    /\ judgeResults = <<>>
    /\ outOfOrder = FALSE
    /\ jpc = "idle"
    /\ outputs = <<>>
    /\ execIndex = 0
    /\ inFlight = {}
    /\ batchOutputs = <<>>
    /\ tpc = "exec-loop"

testStepFrame == <<configVars, strategyVars, revisions, iteration, currentPrompt, testResults,
                   successRate, converged, finalPrompt, decision, runLog, initialized,
                   modifierVars, toolVars>>

\* one turn of the for loop: batch.map starts agent.execute on every case
\* of the slice
ExecStartBatch ==
    /\ tpc = "exec-loop"
    /\ ~ExecutionsDone(execIndex, Len(testCases))
    /\ LET batch == ExecutionBatch(testCases, execIndex)
       IN inFlight' = {batch[a] : a \in 1..Len(batch)}
    /\ batchOutputs' = <<>>
    /\ tpc' = "exec-batch"
    /\ UNCHANGED <<outputs, execIndex, pc, errorVars, judgeVars, testStepFrame>>

\* agent.execute resolves for one case: {id, response}
ExecutionResolves ==
    /\ tpc = "exec-batch"
    /\ \E c \in inFlight, response \in ExecResponses :
          /\ inFlight' = inFlight \ {c}
          /\ batchOutputs' = [d \in DOMAIN batchOutputs \cup {c} |->
                                 IF d = c THEN response ELSE batchOutputs[d]]
    /\ UNCHANGED <<outputs, execIndex, tpc, pc, errorVars, judgeVars, testStepFrame>>

\* agent.execute throws for one case: Promise.all rejects and so does
\* testNode; the other executions of the batch are left running
ExecutionRejects ==
    /\ tpc = "exec-batch"
    /\ \E c \in inFlight :
          /\ inFlight' = inFlight \ {c}
          /\ execFailed' = {c}
    /\ thrown' = "test"
    /\ pc' = "failed"
    /\ tpc' = "rejected"
    /\ UNCHANGED <<outputs, execIndex, batchOutputs, judgeVars, testStepFrame>>

\* Promise.all resolves: outputs.set(result.id, result.response) for every
\* result; i += concurrency
StoreOutputs ==
    /\ tpc = "exec-batch"
    /\ inFlight = {}
    /\ outputs' = [c \in DOMAIN outputs \cup DOMAIN batchOutputs |->
                      IF c \in DOMAIN batchOutputs THEN batchOutputs[c] ELSE outputs[c]]
    /\ execIndex' = execIndex + ExecConcurrency
    /\ batchOutputs' = <<>>
    /\ tpc' = "exec-loop"
    /\ UNCHANGED <<inFlight, pc, errorVars, judgeVars, testStepFrame>>

\* judge.evaluateBatch(state.testSuite.testCases, outputs): no options, so
\* the default concurrency; an empty response counts as no output
StartJudge ==
    /\ tpc = "exec-loop"
    /\ ExecutionsDone(execIndex, Len(testCases))
    /\ evaluable' = {c \in DOMAIN outputs : outputs[c] # ""}
    /\ concurrency' = DefaultConcurrency
    /\ jpc' = "loop"
    /\ tpc' = "judge"
    /\ UNCHANGED <<testCases, batchStart, batchResults, judgeResults, outOfOrder,
                   outputs, execIndex, inFlight, batchOutputs, pc, errorVars, testStepFrame>>

\* evaluateBatch rejected: testNode throws
JudgeRejected ==
    /\ tpc = "judge"
    /\ jpc = "rejected"
    /\ thrown' = "test"
    /\ pc' = "failed"
    /\ tpc' = "rejected"
    /\ UNCHANGED <<outputs, execIndex, inFlight, batchOutputs, execFailed, judgeVars,
                   testStepFrame>>

\* evaluateBatch returned: passed, successRate and the returned update
FinishTestNode ==
    /\ tpc = "judge"
    /\ jpc = "returned"
    /\ LET results == [c \in {judgeResults[a].testCaseId : a \in 1..Len(judgeResults)} |->
                          \E a \in 1..Len(judgeResults) :
                              /\ judgeResults[a].testCaseId = c
                              /\ judgeResults[a].passed]
       IN /\ testResults' = results
          /\ successRate' = SuccessRateOf(results)
          /\ runLog' = Append(runLog, [iteration |-> iteration + 1,
                                       prompt |-> currentPrompt,
                                       successRate |-> SuccessRateOf(results)])
    /\ iteration' = iteration + 1
    /\ revisions' = <<>>
    /\ pc' = "check"
    /\ tpc' = "done"
    /\ UNCHANGED <<configVars, strategyVars, currentPrompt, converged, finalPrompt, decision,
                   initialized, errorVars, judgeVars, modifierVars, toolVars, outputs,
                   execIndex, inFlight, batchOutputs>>

NextTestNode ==
    \/ ExecStartBatch
    \/ ExecutionResolves
    \/ ExecutionRejects
    \/ StoreOutputs
    \/ StartJudge
    \/ StartBatch
    \/ CompleteEvaluation
    \/ EvaluationThrows
    \/ CollectBatch
    \/ ReturnResults
    \/ JudgeRejected
    \/ FinishTestNode

SpecTestNode == InitTestNode /\ [][NextTestNode]_vars


\* ------------------------------------------------------------ Modifier
\* A text is modelled by what it says (content) and its length; a message
\* also by whether it includes 'one sentence'.
Contents == {1, 2}
MessageLengths == {20, 40, 60}
OutputLengths == {10, 20}
GoldLengths == {20, 30}

\* the failed TestResults explored: trace.output and actualOutput hold the
\* same text, the output of the candidate (Judge.evaluateBatch); gold is the
\* expectedOutput of the test case the result belongs to, which the
\* TestResult itself does not carry
FailedTestResults ==
    {[message |-> [content |-> c, length |-> n, oneSentence |-> o],
      output |-> [content |-> k, length |-> m],
      gold |-> [length |-> g],
      failures |-> f, suggestions |-> <<"be concise">>] :
        c \in Contents, n \in MessageLengths, o \in BOOLEAN, k \in Contents,
        m \in OutputLengths, g \in GoldLengths, f \in {<<>>, <<"incomplete">>}}

\* let questionType = ... in buildModifierPrompt
QuestionType(message) ==
    IF message.length < SimpleBelow THEN "simple"
    ELSE IF message.oneSentence THEN "concise_explanation"
    ELSE IF message.length > ComplexAbove THEN "complex"
    ELSE "general"

\* variant: the pattern quotes the input message
FailurePatternVerbatim(test, i) ==
    [pattern |-> i, questionType |-> QuestionType(test.message),
     expectedLength |-> test.output.length, actualLength |-> test.output.length,
     issues |-> test.failures, guidance |-> test.suggestions,
     input |-> test.message.content]

\* one element of failurePatterns
FailurePattern(test, i) ==
    [pattern |-> i, questionType |-> QuestionType(test.message),
     expectedLength |-> test.output.length, actualLength |-> test.output.length,
     issues |-> test.failures, guidance |-> test.suggestions]

\* buildModifierPrompt({currentPrompt, failedTests, modelName})
BuildModifierPrompt(prompt, failed, modelName) ==
    [currentPrompt |-> prompt, targetModel |-> modelName, observed |-> Len(failed),
     failurePatterns |-> [i \in 1..Len(failed) |-> FailurePattern(failed[i], i)]]

\* what the claim lets two failed tests share: tags, suggestions, lengths
\* and question type
SameShape(t, u) ==
    /\ t.failures = u.failures
    /\ t.suggestions = u.suggestions
    /\ t.message.length = u.message.length
    /\ t.output.length = u.output.length
    /\ QuestionType(t.message) = QuestionType(u.message)

Agree(failed, other) ==
    /\ Len(failed) = Len(other)
    /\ \A i \in 1..Len(failed) : SameShape(failed[i], other[i])

FailedLists == UNION {[1..n -> FailedTestResults] : n \in 0..MaxFailed}

\* two failing sets of the same size with the same tags, suggestions and
\* lengths; the wording of the texts is free in both
InitModifier ==
    /\ RunIdle
    /\ JudgeIdle
    /\ TestNodeIdle
    /\ ToolsIdle
    /\ threshold = Scale
    /\ failedTests \in FailedLists
    /\ otherFailedTests \in
          {[i \in 1..Len(failedTests) |->
                [failedTests[i] EXCEPT !.message.content = v[i][1],
                                       !.message.oneSentence = v[i][2],
                                       !.output.content = v[i][3]]] :
             v \in [1..Len(failedTests) -> Contents \X BOOLEAN \X Contents]}
    /\ modifierPrompt = Null
    /\ otherModifierPrompt = Null
    /\ built = 0

\* Modifier.modify builds the prompt of the first failing set
BuildFirstPrompt ==
    /\ built = 0
    /\ modifierPrompt' = BuildModifierPrompt(currentPrompt, failedTests, "target")
    /\ built' = 1
    /\ UNCHANGED <<failedTests, otherFailedTests, otherModifierPrompt, runVars, judgeVars, testNodeVars, toolVars>>

\* Modifier.modify builds the prompt of the second failing set
BuildOtherPrompt ==
    /\ built = 1
    /\ otherModifierPrompt' = BuildModifierPrompt(currentPrompt, otherFailedTests, "target")
    /\ built' = 2
    /\ UNCHANGED <<failedTests, otherFailedTests, modifierPrompt, runVars, judgeVars, testNodeVars, toolVars>>

NextModifier ==
    \/ BuildFirstPrompt
    \/ BuildOtherPrompt

SpecModifier == InitModifier /\ [][NextModifier]_vars

\* ------------------------------------------------------------ properties
\* the largest success rate measured by the executed test steps
RECURSIVE MaxRate(_)
MaxRate(log) ==
    IF log = <<>> THEN 0
    ELSE LET m == MaxRate(SubSeq(log, 1, Len(log) - 1))
         IN IF log[Len(log)].successRate > m THEN log[Len(log)].successRate ELSE m

\* index of the first history record that meets the threshold (0 if none)
FirstMet(h) ==
    IF \E i \in 1..Len(h) : h[i].successRate >= threshold
    THEN CHOOSE i \in 1..Len(h) :
            /\ h[i].successRate >= threshold
            /\ \A j \in 1..(i - 1) : h[j].successRate < threshold
    ELSE 0

\* C1: in one run the test step is executed at most maxIterations times.
C1_TestsWithinBudget == Len(runLog) <= maxIterations

\* C2: when shouldContinue answers stop in the check step the run ends there:
\* no modify step and no further test step follows a stop.
C2_StopEndsRun == decision = "stop" => pc = "end"

\* C3: if no iteration reaches the threshold, the run has ended once the
\* strategy answered stop, after at most maxIterations iterations, reporting
\* the best attempt with success = false.
C3_EndsBelowThreshold ==
    (decision = "stop" /\ MaxRate(runLog) < threshold)
        => /\ pc = "end"
           /\ ~converged
           /\ successRate = MaxRate(runLog)
           /\ Len(runLog) <= maxIterations

\* C4: whatever the strategy, its parameters and the earlier calls, a
\* shouldContinue call with iteration >= maxIterations answers stop.
C4_BudgetInvariant == iteration >= maxIterations => decision # "continue"

C4_Witness ==
    /\ strategy.name = "ThresholdPlusBonusRounds"
    /\ thresholdReachedAt # Null
    /\ thresholdReachedAt < iteration
    /\ iteration >= maxIterations
    /\ Len(history) >= 2
    /\ decision = "stop"

\* C5: when a run ends, the reported success rate is at least the rate
\* measured in every executed iteration, and the reported prompt is the
\* prompt that was tested in an iteration that measured that rate.
C5_BestIsReported ==
    pc = "end" =>
        /\ \A i \in 1..Len(runLog) : successRate >= runLog[i].successRate
        /\ \E i \in 1..Len(runLog) :
              /\ runLog[i].successRate = successRate
              /\ runLog[i].prompt = finalPrompt

C5_Witness ==
    /\ pc = "end"
    /\ Len(runLog) >= 2
    /\ runLog[Len(runLog)].successRate < successRate
    /\ finalPrompt # currentPrompt

\* C6: after any non-empty sequence of shouldContinue calls, getBestResult
\* returns the history record with the largest successRate, the earliest
\* one when several tie.
C6_BestResultIsEarliestMax ==
    history # <<>> =>
        LET best == GetBestResult(history)
        IN \E i \in 1..Len(history) :
              /\ history[i].prompt = best.prompt
              /\ history[i].successRate = best.successRate
              /\ history[i].iteration = best.iteration
              /\ \A j \in 1..Len(history) : history[j].successRate <= best.successRate
              /\ \A j \in 1..(i - 1) : history[j].successRate < best.successRate

C6_Witness ==
    /\ Len(history) >= 3
    /\ history[1].successRate < history[2].successRate
    /\ history[3].successRate = history[2].successRate
    /\ GetBestResult(history).prompt = history[2].prompt

\* C7: at the end of a run, converged is true exactly when the best success
\* rate over all executed iterations is >= threshold (also when a later
\* iteration regressed below the threshold).
C7_SuccessIffBestMeetsThreshold ==
    pc = "end" => (converged <=> MaxRate(runLog) >= threshold)

C7_Witness ==
    /\ pc = "end"
    /\ converged
    /\ Len(runLog) >= 2
    /\ runLog[Len(runLog)].successRate < threshold

\* C8: under AlwaysRunMax a run performs exactly maxIterations iterations
\* for every score sequence.
C8_ExhaustiveRunsExactlyMax ==
    (strategy.name = "AlwaysRunMax" /\ pc = "end") => Len(runLog) = maxIterations

\* C9: under ThresholdPlusBonusRounds, once the threshold was first met at
\* iteration t <= maxIterations, the grant is g = min(bonusRounds,
\* maxIterations - t) from that call on, and every call at an iteration
\* i >= t answers continue when i < t + g and stop otherwise, whatever the
\* scores of the bonus iterations.
C9_BonusWindow ==
    (/\ strategy.name = "ThresholdPlusBonusRounds"
     /\ FirstMet(history) # 0
     /\ history[FirstMet(history)].iteration <= maxIterations)
        => LET t == history[FirstMet(history)].iteration
               g == Min(strategy.bonusRounds, maxIterations - t)
           IN /\ thresholdReachedAt = t
              /\ bonusRoundsAvailable = g
              /\ iteration >= t =>
                    decision = (IF iteration < t + g THEN "continue" ELSE "stop")

C9_Witness ==
    /\ strategy.name = "ThresholdPlusBonusRounds"
    /\ Len(history) >= 3
    /\ FirstMet(history) = 1
    /\ history[2].successRate < threshold
    /\ history[3].successRate >= threshold
    /\ bonusRoundsAvailable = 1
    /\ bonusRoundsAvailable < strategy.bonusRounds
    /\ iteration = thresholdReachedAt + bonusRoundsAvailable
    /\ decision = "stop"

\* C10: on each shouldContinue call of the patience strategy, if successRate
\* - bestSoFar >= minImprovement then bestSoFar becomes successRate and the
\* remaining patience is reset to patience; otherwise the remaining patience
\* decreases by exactly 1 and bestSoFar is unchanged.
C10_PatienceUpdate ==
    [][(strategy.name = "EarlyStoppingWithPatience" /\ Len(history') = Len(history) + 1)
          => IF successRate' - bestSuccessRate >= strategy.minImprovement
             THEN bestSuccessRate' = successRate' /\ patienceCounter' = strategy.patience
             ELSE bestSuccessRate' = bestSuccessRate
                  /\ patienceCounter' = patienceCounter - 1]_vars

C10_Witness ==
    /\ strategy.name = "EarlyStoppingWithPatience"
    /\ Len(history) >= 3
    /\ history[1].successRate = strategy.minImprovement
    /\ bestSuccessRate = history[1].successRate
    /\ history[2].successRate = bestSuccessRate
    /\ history[3].successRate < bestSuccessRate
    /\ patienceCounter = strategy.patience - 2

\* the patience bookkeeping replayed over a history from an initialized
\* instance: the rate of the last reset and the calls made since
RECURSIVE PatienceReplay(_)
PatienceReplay(h) ==
    IF h = <<>> THEN [best |-> 0, stale |-> 0]
    ELSE LET prev == PatienceReplay(SubSeq(h, 1, Len(h) - 1))
             rate == h[Len(h)].successRate
         IN IF rate - prev.best >= strategy.minImprovement
            THEN [best |-> rate, stale |-> 0]
            ELSE [best |-> prev.best, stale |-> prev.stale + 1]

\* C11: in a run (the strategy was initialized) with patience p >= 1, a
\* shouldContinue call answers stop exactly when p calls without sufficient
\* improvement have accumulated since the last reset (or since initialize)
\* or its iteration is >= maxIterations; every other call answers continue.
C11_PatienceStop ==
    (strategy.name = "EarlyStoppingWithPatience" /\ history # <<>>)
        => (decision = "stop"
              <=> \/ PatienceReplay(history).stale >= strategy.patience
                  \/ history[Len(history)].iteration >= maxIterations)

C11_Witness ==
    /\ strategy.name = "EarlyStoppingWithPatience"
    /\ Len(history) = strategy.patience + 1
    /\ history[1].successRate >= strategy.minImprovement
    /\ PatienceReplay(history).stale = strategy.patience
    /\ history[Len(history)].iteration < maxIterations
    /\ decision = "stop"

\* C12: a case whose execution or scoring fails counts as a failed case of
\* that iteration and the run goes on: while only part of the suite has
\* failed to execute, no node of the run has thrown.
C12_CaseFailureAbsorbed ==
    (execFailed # {} /\ execFailed # testSuite) => thrown = "none"

\* C13: when the Reviser fails, the run has ended with the best result on
\* record: the best measured rate and the prompt that was tested with it.
C13_ReviserFailureEndsWithBest ==
    thrown = "modify" =>
        /\ pc = "end"
        /\ successRate = MaxRate(runLog)
        /\ \E i \in 1..Len(runLog) :
              /\ runLog[i].prompt = finalPrompt
              /\ runLog[i].successRate = successRate

\* C14: when every case of a non-empty suite fails to execute in an
\* iteration, the run is aborted by the error of the test step.
C14_AllFailedIsFatal ==
    (testSuite # {} /\ execFailed = testSuite) => (pc = "failed" /\ thrown = "test")

C14_Witness ==
    /\ execFailed = testSuite
    /\ Cardinality(testSuite) >= 2
    /\ Len(runLog) >= 1
    /\ pc = "failed"

\* the result handed to the caller when the graph has reached END
MigrationResult ==
    [success |-> converged, iterations |-> iteration,
     finalSuccessRate |-> successRate, finalPrompt |-> finalPrompt,
     originalPrompt |-> 0]

\* C17: the iterations field of the result of a finished run is the number
\* of iterations that were completed, not the iteration of the best result.
C17_IterationsCompleted ==
    pc = "end" => MigrationResult.iterations = Len(runLog)

\* the answers of a second instance of the configured strategy that starts
\* with patienceCounter = counter0 and receives the calls of log
RECURSIVE SecondInstancePatience(_, _)
SecondInstancePatience(log, counter0) ==
    IF log = <<>> THEN [best |-> 0, counter |-> counter0]
    ELSE LET prev == SecondInstancePatience(SubSeq(log, 1, Len(log) - 1), counter0)
             rate == log[Len(log)].successRate
         IN IF rate - prev.best >= strategy.minImprovement
            THEN [best |-> rate, counter |-> strategy.patience]
            ELSE [best |-> prev.best, counter |-> prev.counter - 1]

SecondInstanceDecision(log, counter0) ==
    LET it == log[Len(log)].iteration
        budget == IF it >= maxIterations THEN "stop" ELSE "continue"
    IN CASE strategy.name = "AlwaysRunMax" -> budget
         [] strategy.name = "EarlyStoppingWithPatience" ->
               IF SecondInstancePatience(log, counter0).counter <= 0
               THEN "stop" ELSE budget
         [] strategy.name = "ThresholdPlusBonusRounds" ->
               IF FirstMet(log) = 0 THEN budget
               ELSE LET t == log[FirstMet(log)].iteration
                        g == Min(strategy.bonusRounds, maxIterations - t)
                    IN IF it - t >= g THEN "stop" ELSE "continue"

\* getBestResult of a second instance that received the calls of log
SecondInstanceBest(log) ==
    LET i == CHOOSE k \in 1..Len(log) :
                /\ log[k].successRate = MaxRate(log)
                /\ \A j \in 1..(k - 1) : log[j].successRate < MaxRate(log)
    IN [prompt |-> log[i].prompt, successRate |-> log[i].successRate,
        iteration |-> log[i].iteration]

\* C19 (as stated): after initialize on a used instance, every call answers
\* as a newly constructed instance answers the same calls, and the best
\* result is the same.
C19_InitializeEqualsConstructed ==
    (initialized /\ runLog # <<>>) =>
        /\ decision = SecondInstanceDecision(runLog, 0)
        /\ GetBestResult(history) = SecondInstanceBest(runLog)

\* C19 (amended): after initialize on a used instance, every call answers as
\* a newly constructed instance on which initialize was called answers the
\* same calls, and the best result is the same.
C19_InitializeEqualsInitialized ==
    (initialized /\ runLog # <<>>) =>
        /\ decision = SecondInstanceDecision(runLog, strategy.patience)
        /\ GetBestResult(history) = SecondInstanceBest(runLog)

C19_Witness ==
    /\ initialized
    /\ strategy.name = "EarlyStoppingWithPatience"
    /\ strategy.patience = 2
    /\ Len(runLog) = 2
    /\ runLog[1].successRate < strategy.minImprovement
    /\ runLog[2].successRate < strategy.minImprovement
    /\ runLog[2].iteration < maxIterations
    /\ decision = "stop"

\* C20: the i-th record of the strategy's history (counted from 1) carries
\* iteration i, and the history has one record per checked iteration.
C20_HistoryNumbering ==
    /\ \A i \in 1..Len(history) : history[i].iteration = i
    /\ Len(history) = (IF pc = "check" THEN Len(runLog) - 1 ELSE Len(runLog))

\* C15: every verdict returned by the Judge with passed = true has every
\* score of its evaluation at or above the Judge's threshold.
C15_PassedMeetsThreshold ==
    \A a \in 1..Len(judgeResults) :
        judgeResults[a].passed =>
            \A d \in Dims : judgeResults[a].evaluation.scores[d] * Scale >= JudgeThreshold

\* C18: evaluateBatch returns exactly one TestResult per test case, in the
\* order of the testCases argument, whatever the order of completion.
C18_ResultsInArgumentOrder ==
    jpc = "returned" =>
        /\ Len(judgeResults) = Len(testCases)
        /\ \A a \in 1..Len(testCases) : judgeResults[a].testCaseId = testCases[a]

C18_Witness ==
    /\ jpc = "returned"
    /\ outOfOrder
    /\ Len(testCases) = 3
    /\ concurrency = 2
    /\ testCases[1] > testCases[2]

\* C16: two failing sets that agree, case by case, on issue tags,
\* suggestions, text lengths and question type get the same Modifier
\* prompt, whatever the content of their inputs and outputs.
C16_PromptIgnoresContent ==
    (built = 2 /\ Agree(failedTests, otherFailedTests))
        => modifierPrompt = otherModifierPrompt

C16_Witness ==
    /\ built = 2
    /\ Len(failedTests) >= 1
    /\ Agree(failedTests, otherFailedTests)
    /\ failedTests[1].message.content # otherFailedTests[1].message.content
    /\ failedTests[1].output.content = otherFailedTests[1].output.content
    /\ failedTests[1].message.oneSentence # otherFailedTests[1].message.oneSentence
    /\ modifierPrompt.failurePatterns[1].questionType = "simple"

\* C30: for all three strategies getBestResult returns no result while the
\* history is empty: it fails with an error exactly then.
C30_EmptyHistoryFails ==
    (GetBestResult(history) = TypeError) <=> (history = <<>>)

C30_Witness ==
    /\ initialized
    /\ history = <<>>
    /\ decision = "none"
    /\ strategy.name = "ThresholdPlusBonusRounds"
    /\ GetBestResult(history) = TypeError

\* C28: under the patience strategy the remaining patience stays within
\* 0..patience in every state of a run.
C28_PatienceInRange ==
    strategy.name = "EarlyStoppingWithPatience"
        => (0 <= patienceCounter /\ patienceCounter <= strategy.patience)

\* C21: a continue decision leads to the modify step; the Modifier is then
\* called once, with the prompt the iteration tested and exactly its failed
\* verdicts, and the next test step tests the text the Modifier returned.
C21_ContinueRevisesOnce ==
    [][/\ (pc = "check" /\ decision' = "continue") => pc' = "modify"
       /\ (pc = "modify" /\ decision = "continue" /\ pc' = "test") =>
             revisions' = <<[prompt |-> runLog[Len(runLog)].prompt,
                             failed |-> {c \in testSuite : ~testResults[c]},
                             returned |-> currentPrompt']>>
       /\ (pc = "test" /\ pc' = "check" /\ revisions # <<>>) =>
             runLog'[Len(runLog')].prompt = revisions[Len(revisions)].returned]_vars

C21_Witness ==
    /\ pc = "check"
    /\ Len(runLog) = 2
    /\ decision = "continue"
    /\ runLog[1].successRate \notin {0, Scale}
    /\ runLog[2].prompt # runLog[1].prompt

\* C24: a test step starts only from the initialize step of a run or from a
\* completed modify step, when every tested iteration has its record in the
\* history (its decision is taken) and its Modifier call has returned.
C24_IterationsDoNotOverlap ==
    [][(pc' = "test" /\ pc # "test") =>
          \/ pc = "initialize" /\ runLog = <<>>
          \/ /\ pc = "modify"
             /\ Len(history) = Len(runLog)
             /\ history[Len(history)].prompt = runLog[Len(runLog)].prompt
             /\ decision # "none"
             /\ Len(revisions') = 1
             /\ revisions'[1].returned = currentPrompt']_vars

C24_Witness ==
    /\ pc = "test"
    /\ Len(runLog) = 2
    /\ Len(history) = 2
    /\ Len(revisions) = 1
    /\ decision = "continue"

\* C27: no step changes threshold, maxIterations, the strategy object or the
\* test suite; the test step leaves currentPrompt as it is and the modify
\* step changes no field of the state but currentPrompt.
C27_FrameOfSteps ==
    [][/\ UNCHANGED configVars
       /\ pc = "test" => currentPrompt' = currentPrompt
       /\ pc = "modify" => UNCHANGED <<iteration, testResults, successRate, converged,
                                       finalPrompt>>]_vars

C27_Witness ==
    /\ pc = "test"
    /\ Len(runLog) >= 1
    /\ currentPrompt # runLog[Len(runLog)].prompt
    /\ testResults # <<>>
    /\ iteration = Len(runLog)

\* C29: when the strategy continues after an iteration in which every case
\* passed, the modify step runs, the Modifier is called with an empty failed
\* set, and the prompt handed to the next test step is what it returned.
C29_RevisesAPerfectPrompt ==
    [][/\ (pc = "check" /\ decision' = "continue" /\ successRate' = Scale) => pc' = "modify"
       /\ (pc = "modify" /\ decision = "continue" /\ successRate = Scale /\ pc' = "test") =>
             /\ Len(revisions') = 1
             /\ revisions'[1].failed = {}
             /\ revisions'[1].prompt = currentPrompt
             /\ currentPrompt' = revisions'[1].returned]_vars

C29_Witness ==
    /\ pc = "test"
    /\ decision = "continue"
    /\ successRate = Scale
    /\ runLog[Len(runLog)].successRate = Scale
    /\ Len(revisions) = 1
    /\ revisions[1].failed = {}
    /\ currentPrompt = revisions[1].returned

\* C25: for each failed case the prompt of the Modifier reports the length
\* of the gold-standard output as expected and the length of the
\* candidate's output as got.
C25_ExpectedIsGoldLength ==
    built >= 1 =>
        \A i \in 1..Len(failedTests) :
            /\ modifierPrompt.failurePatterns[i].expectedLength = failedTests[i].gold.length
            /\ modifierPrompt.failurePatterns[i].actualLength = failedTests[i].output.length

\* the case ids of the suite handed to testNode
SuiteIds == {testCases[a] : a \in 1..Len(testCases)}

\* C22: within a test step, scoring has started only when no execution of
\* the candidate is still awaited and the outputs Map holds an entry for
\* every case id of the suite and for nothing else.
C22_ScoringAfterAllExecutions ==
    (tpc \in {"judge", "done"} \/ jpc # "idle") =>
        /\ inFlight = {}
        /\ batchOutputs = <<>>
        /\ DOMAIN outputs = SuiteIds
        /\ \A c \in SuiteIds : outputs[c] \in ExecResponses

\* scoring started on a suite of more than one execution batch
C22_Witness ==
    /\ tpc = "judge"
    /\ jpc = "batch"
    /\ Len(testCases) > ExecConcurrency
    /\ DOMAIN outputs = SuiteIds

\* C23: at any moment at most 5 executions of the candidate and at most 3
\* evaluations of the judge are awaited, whatever the size of the suite.
C23_BoundedInFlight ==
    /\ Cardinality(inFlight) <= ExecConcurrency
    /\ JudgeInFlight <= DefaultConcurrency

\* a suite larger than both windows with both windows full at some time:
\* three evaluations awaited after a first batch of five executions
C23_Witness ==
    /\ Len(testCases) > ExecConcurrency
    /\ JudgeInFlight = DefaultConcurrency
    /\ execIndex > ExecConcurrency
    /\ batchStart = DefaultConcurrency

\* five executions awaited at once, a sixth case still to be started
C23_WitnessExecutions ==
    /\ Len(testCases) > ExecConcurrency
    /\ Cardinality(inFlight) = ExecConcurrency

\* C26: for a non-empty suite the step ends with one verdict per case, in
\* the order of the suite, successRate is the number of verdicts that
\* passed over the number of verdicts, and 0 <= successRate <= 1 always.
C26_SuccessRateIsPassedOverAll ==
    /\ 0 <= successRate
    /\ successRate <= Scale
    /\ (tpc = "done" /\ Len(testCases) > 0) =>
          /\ Len(judgeResults) = Len(testCases)
          /\ \A a \in 1..Len(judgeResults) : judgeResults[a].testCaseId = testCases[a]
          /\ successRate * Len(judgeResults) =
                Scale * Cardinality({a \in 1..Len(judgeResults) : judgeResults[a].passed})

\* a step that ended with some verdicts passed and some failed
C26_Witness ==
    /\ tpc = "done"
    /\ Len(judgeResults) > DefaultConcurrency
    /\ successRate > 0
    /\ successRate < Scale

\* ---------------------------------------------------------------- Profiler
\* Profiler.profileBatch on one Profiler with its one agent. A profile call
\* runs resetTracking and the start of execute at once, is suspended on
\* model.invoke, adds the usage to the counters of the agent when the model
\* answers, and reads getCost when it is resumed after execute. The calls
\* of a batch go on after one of them rejected, and the owner of the
\* Profiler may call clear and load meanwhile.

\* response.usage_metadata: tokens in and out (absent counts as none)
Usages == {[input |-> 0, output |-> 0], [input |-> 1, output |-> 1],
           [input |-> 2, output |-> 1]}

NoUsage == [input |-> 0, output |-> 0]

\* Agent.getCost().totalCost with the fallback pricing, in 1/1 000 000 USD
GetCost(tokens) ==
    tokens.totalInputTokens * PriceInput + tokens.totalOutputTokens * PriceOutput

\* the cost of one execution by itself
CostOfUsage(usage) == usage.input * PriceInput + usage.output * PriceOutput

\* Agent.resetTracking
ResetTracking == [totalInputTokens |-> 0, totalOutputTokens |-> 0]

\* inputs.slice(i, i + batchSize), i counted from 0
ProfileBatch(inputList, i, k) == SubSeq(inputList, i + 1, Min(i + k, Len(inputList)))

\* the entry built and returned by the profile call of an input
EntryOf(id) == [input |-> id, cost |-> profCalls[id].cost]

\* data.entries handed to load: one entry profiled elsewhere
LoadedEntries == {<<[input |-> 0, cost |-> 5]>>}

BatchSizes == {1, 2, DefaultBatchSize}

InputLists == {[a \in 1..n |-> a] : n \in 0..MaxInputs}

InitProfiler ==
    /\ RunIdle
    /\ JudgeIdle
    /\ ModifierIdle
    /\ TestNodeIdle
    /\ IterativeIdle
    /\ ValidatorIdle
    /\ threshold = Scale
    /\ profInputs \in InputLists
    /\ batchSize \in BatchSizes
    /\ profIndex = 0
    /\ agentTokens = ResetTracking
    /\ profCalls = <<>>
    /\ entries = <<>>
    /\ profResults = <<>>
    /\ ppc = "loop"

profilerFrame == <<runVars, judgeVars, modifierVars, testNodeVars, iterativeVars,
                   validatorVars>>

\* one turn of the for loop: batch.map starts profile on every input of the
\* slice; each call resets the counters and reaches model.invoke
ProfileStartBatch ==
    /\ ppc = "loop"
    /\ profIndex < Len(profInputs)
    /\ LET batch == ProfileBatch(profInputs, profIndex, batchSize)
           started == {batch[a] : a \in 1..Len(batch)}
       IN profCalls' = [id \in DOMAIN profCalls \cup started |->
                           IF id \in started
                           THEN [phase |-> "invoking", usage |-> NoUsage, cost |-> Null]
                           ELSE profCalls[id]]
    /\ agentTokens' = ResetTracking
    /\ ppc' = "batch"
    /\ UNCHANGED <<profInputs, batchSize, profIndex, entries, profResults, profilerFrame>>

\* model.invoke resolves for one call: execute adds the usage to the
\* counters and returns
ModelResponds ==
    /\ ppc \in {"batch", "rejected"}
    /\ \E id \in DOMAIN profCalls, usage \in Usages :
          /\ profCalls[id].phase = "invoking"
          /\ agentTokens' =
                [totalInputTokens |-> agentTokens.totalInputTokens + usage.input,
                 totalOutputTokens |-> agentTokens.totalOutputTokens + usage.output]
          /\ profCalls' = [profCalls EXCEPT ![id] = [phase |-> "executed", usage |-> usage,
                                                     cost |-> Null]]
    /\ UNCHANGED <<profInputs, batchSize, profIndex, entries, profResults, ppc,
                   profilerFrame>>

\* profile is resumed after execute: getCost, this.entries.push(entry)
ProfileRecords ==
    /\ ppc \in {"batch", "rejected"}
    /\ \E id \in DOMAIN profCalls :
          /\ profCalls[id].phase = "executed"
          /\ entries' = Append(entries, [input |-> id, cost |-> GetCost(agentTokens)])
          /\ profCalls' = [profCalls EXCEPT ![id].phase = "recorded",
                                            ![id].cost = GetCost(agentTokens)]
    /\ UNCHANGED <<profInputs, batchSize, profIndex, agentTokens, profResults, ppc,
                   profilerFrame>>

\* model.invoke rejects for one call: Promise.all and profileBatch reject,
\* the other calls of the batch go on
ModelRejects ==
    /\ ppc \in {"batch", "rejected"}
    /\ \E id \in DOMAIN profCalls :
          /\ profCalls[id].phase = "invoking"
          /\ profCalls' = [profCalls EXCEPT ![id].phase = "rejected"]
    /\ ppc' = "rejected"
    /\ UNCHANGED <<profInputs, batchSize, profIndex, agentTokens, entries, profResults,
                   profilerFrame>>

\* Promise.all resolves: results.push(...batchResults); i += batchSize
ProfileCollect ==
    /\ ppc = "batch"
    /\ LET batch == ProfileBatch(profInputs, profIndex, batchSize)
       IN /\ \A a \in 1..Len(batch) : profCalls[batch[a]].phase = "recorded"
          /\ profResults' = profResults \o [a \in 1..Len(batch) |-> EntryOf(batch[a])]
    /\ profIndex' = profIndex + batchSize
    /\ ppc' = "loop"
    /\ UNCHANGED <<profInputs, batchSize, agentTokens, profCalls, entries, profilerFrame>>

\* return results
ProfileReturn ==
    /\ ppc = "loop"
    /\ profIndex >= Len(profInputs)
    /\ ppc' = "returned"
    /\ UNCHANGED <<profInputs, batchSize, profIndex, agentTokens, profCalls, entries,
                   profResults, profilerFrame>>

\* Profiler.clear()
ProfilerClear ==
    /\ ppc # "idle"
    /\ entries' = <<>>
    /\ UNCHANGED <<profInputs, batchSize, profIndex, agentTokens, profCalls, profResults,
                   ppc, profilerFrame>>

\* Profiler.load(data)
ProfilerLoad ==
    /\ ppc # "idle"
    /\ entries' \in LoadedEntries
    /\ UNCHANGED <<profInputs, batchSize, profIndex, agentTokens, profCalls, profResults,
                   ppc, profilerFrame>>

NextProfiler ==
    \/ ProfileStartBatch
    \/ ModelResponds
    \/ ProfileRecords
    \/ ModelRejects
    \/ ProfileCollect
    \/ ProfileReturn
    \/ ProfilerClear
    \/ ProfilerLoad

SpecProfiler == InitProfiler /\ [][NextProfiler]_vars

\* C31: under every interleaving of the profile calls of a batch, the cost
\* recorded in each ProfileEntry is the cost of that entry's own execution.
C31_EntryCostIsOwnCost ==
    \A id \in DOMAIN profCalls :
        profCalls[id].phase = "recorded" =>
            EntryOf(id).cost = CostOfUsage(profCalls[id].usage)

\* --------------------------------------------------------- iterativeModify
\* Modifier.iterativeModify on a Modifier that is fresh or has made one
\* modification before, and whose owner may call clear meanwhile. The callback's answer is the number of evaluations
\* that failed out of NCases; the model's answer to modify is a prompt.

ModMaxIterations == (1..MaxModIter) \cup {DefaultMaxIterations}

\* parsed.modifiedPrompt: the prompt under revision again, or another text
ModifiedPrompts == 0..2

\* 1 - failedEvaluations.length / evaluations.length
PassRate(failed, total) == Scale - (failed * Scale) \div total

\* this.modifications[this.modifications.length - 1] ?? null
LastModification(mods) ==
    IF mods = <<>> THEN NoModification ELSE mods[Len(mods)]

\* the PromptModification built and pushed by modify
Modification(prompt, modified, mods) ==
    [originalPrompt |-> prompt, modifiedPrompt |-> modified, iteration |-> Len(mods) + 1]

InitIterative ==
    /\ RunIdle
    /\ JudgeIdle
    /\ ModifierIdle
    /\ TestNodeIdle
    /\ ProfilerIdle
    /\ ValidatorIdle
    /\ threshold = Scale
    /\ modMaxIterations \in ModMaxIterations
    /\ modThreshold \in Thresholds
    /\ modifications \in {<<>>} \cup {<<Modification(0, p, <<>>)>> : p \in ModifiedPrompts}
    /\ modPrompt = 0
    /\ modIndex = 0
    /\ evaluatedLog = <<>>
    /\ modResult = NoModification
    /\ modReturned = NoModification
    /\ ipc = "loop"

iterativeFrame == <<runVars, judgeVars, modifierVars, testNodeVars, profilerVars,
                    validatorVars>>

\* one turn of the loop up to the call of modify: evaluateCallback, passRate,
\* the return when the threshold is met, the break when nothing failed
EvaluateCallback ==
    /\ ipc = "loop"
    /\ modIndex < modMaxIterations
    /\ \E failed \in 0..NCases :
          LET passRate == PassRate(failed, NCases)
          IN /\ evaluatedLog' = Append(evaluatedLog,
                                       [prompt |-> modPrompt, passRate |-> passRate])
             /\ IF passRate >= modThreshold
                THEN /\ modReturned' = LastModification(modifications)
                     /\ ipc' = "returned"
                ELSE IF failed = 0
                THEN /\ modReturned' = LastModification(modifications)
                     /\ ipc' = "returned"
                ELSE /\ ipc' = "modify"
                     /\ UNCHANGED modReturned
    /\ UNCHANGED <<modMaxIterations, modThreshold, modifications, modPrompt, modIndex,
                   modResult, iterativeFrame>>

\* evaluateCallback rejects
CallbackRejects ==
    /\ ipc = "loop"
    /\ modIndex < modMaxIterations
    /\ ipc' = "rejected"
    /\ UNCHANGED <<modMaxIterations, modThreshold, modifications, modPrompt, modIndex,
                   evaluatedLog, modResult, modReturned, iterativeFrame>>

\* modify is resumed after model.invoke: the modification is built, pushed
\* on this.modifications and returned
ModifyPushes ==
    /\ ipc = "modify"
    /\ \E modified \in ModifiedPrompts :
          /\ modResult' = Modification(modPrompt, modified, modifications)
          /\ modifications' = Append(modifications, modResult')
    /\ ipc' = "modified"
    /\ UNCHANGED <<modMaxIterations, modThreshold, modPrompt, modIndex, evaluatedLog,
                   modReturned, iterativeFrame>>

\* iterativeModify is resumed after await this.modify: currentPrompt becomes
\* the modifiedPrompt of the modification returned, i++
IterativeModifies ==
    /\ ipc = "modified"
    /\ modPrompt' = modResult.modifiedPrompt
    /\ modIndex' = modIndex + 1
    /\ ipc' = "loop"
    /\ UNCHANGED <<modMaxIterations, modThreshold, modifications, evaluatedLog, modResult,
                   modReturned, iterativeFrame>>

\* Modifier.clear()
ModifierClear ==
    /\ ipc # "idle"
    /\ modifications' = <<>>
    /\ UNCHANGED <<modMaxIterations, modThreshold, modPrompt, modIndex, evaluatedLog,
                   modResult, modReturned, ipc, iterativeFrame>>

\* modify throws: the model did not return JSON
IterativeModifyThrows ==
    /\ ipc = "modify"
    /\ ipc' = "rejected"
    /\ UNCHANGED <<modMaxIterations, modThreshold, modifications, modPrompt, modIndex,
                   evaluatedLog, modResult, modReturned, iterativeFrame>>

\* the loop ends at i = maxIterations: the return after the loop
IterationsExhausted ==
    /\ ipc = "loop"
    /\ modIndex >= modMaxIterations
    /\ modReturned' = LastModification(modifications)
    /\ ipc' = "returned"
    /\ UNCHANGED <<modMaxIterations, modThreshold, modifications, modPrompt, modIndex,
                   evaluatedLog, modResult, iterativeFrame>>

NextIterative ==
    \/ EvaluateCallback
    \/ CallbackRejects
    \/ ModifyPushes
    \/ IterativeModifies
    \/ ModifierClear
    \/ IterativeModifyThrows
    \/ IterationsExhausted

SpecIterative == InitIterative /\ [][NextIterative]_vars

\* C32: evaluateCallback is called at most maxIterations times; a non-null
\* modification returned carries a prompt the callback evaluated with a pass
\* rate at or above the threshold; null is returned when the initial prompt
\* already meets the threshold.
C32_ReturnedPromptMetThreshold ==
    /\ Len(evaluatedLog) <= modMaxIterations
    /\ (ipc = "returned" /\ modReturned # NoModification) =>
          \E a \in 1..Len(evaluatedLog) :
              /\ evaluatedLog[a].prompt = modReturned.modifiedPrompt
              /\ evaluatedLog[a].passRate >= modThreshold
    /\ (ipc = "returned" /\ Len(evaluatedLog) >= 1
                          /\ evaluatedLog[1].passRate >= modThreshold) =>
          modReturned = NoModification

\* ------------------------------------------------------ Validator.validate
\* One call of validate: the sample is drawn, the loop goes through sampled
\* and either skips an entry or awaits judge.evaluate for it, and summarize
\* builds the summary. Of the summary only totalEntries and passedEntries
\* are kept (averageScore and byCategory do not bear on them).

\* ProfileEntry.id: two ids, so an id may occur twice in entries
EntryIds == 1..2

\* input.entries
EntryLists == UNION {[1..n -> EntryIds] : n \in 0..MaxEntries}

\* input.targetOutputs: a Map from some ids to a text or to the empty string
TargetOutputMaps == UNION {[S -> {"text", ""}] : S \in SUBSET EntryIds}

\* config.sampleSize; 0 stands for not set (it is tested for truthiness)
SampleSizes == 0..MaxEntries

\* targetOutputs.get(entry.id)
MapGet(map, id) == IF id \in DOMAIN map THEN map[id] ELSE "undefined"

\* variant: every entry is taken to have a target output
HasTargetOutputAlways(targetOutput) == TRUE

\* !( !targetOutput ): the lookup is neither undefined nor the empty string
HasTargetOutput(targetOutput) == targetOutput \notin {"undefined", ""}

\* sampleEntries and the test of config.sampleSize: all the entries, or
\* size of them in the order of some shuffle
Samples(entryList, size) ==
    IF size = 0 \/ Len(entryList) <= size
    THEN {entryList}
    ELSE {[a \in 1..size |-> entryList[f[a]]] :
            f \in {g \in [1..size -> 1..Len(entryList)] :
                     \A a, b \in 1..size : a # b => g[a] # g[b]}}

\* summarize: totalEntries and passedEntries
Summarize(results) ==
    IF Len(results) = 0
    THEN [totalEntries |-> 0, passedEntries |-> 0]
    ELSE [totalEntries |-> Len(results),
          passedEntries |-> Cardinality({a \in 1..Len(results) : results[a].passed})]

InitValidate ==
    /\ RunIdle
    /\ JudgeIdle
    /\ ModifierIdle
    /\ TestNodeIdle
    /\ ProfilerIdle
    /\ IterativeIdle
    /\ threshold = Scale
    /\ valEntries \in EntryLists
    /\ targetOutputs \in TargetOutputMaps
    /\ sampleSize \in SampleSizes
    /\ sampled = <<>>
    /\ valIndex = 0
    /\ valResults = <<>>
    /\ valEvaluations = <<>>
    /\ summary = NoSummary
    /\ vpc = "start"

validateFrame == <<runVars, judgeVars, modifierVars, testNodeVars, profilerVars,
                   iterativeVars>>

\* const sampled = ...; results = []
ValidateStarts ==
    /\ vpc = "start"
    /\ sampled' \in Samples(valEntries, sampleSize)
    /\ valEvaluations' = [a \in 1..Len(sampled') |-> 0]
    /\ vpc' = "loop"
    /\ UNCHANGED <<valEntries, targetOutputs, sampleSize, valIndex, valResults, summary,
                   validateFrame>>

\* a turn of the loop on an entry without target output: warn and continue
ValidateSkips ==
    /\ vpc = "loop"
    /\ valIndex < Len(sampled)
    /\ ~HasTargetOutput(MapGet(targetOutputs, sampled[valIndex + 1]))
    /\ valIndex' = valIndex + 1
    /\ UNCHANGED <<valEntries, targetOutputs, sampleSize, sampled, valResults,
                   valEvaluations, summary, vpc, validateFrame>>

\* a turn of the loop on an entry with target output: judge.evaluate
\* resolves and its result is pushed
ValidateEvaluates ==
    /\ vpc = "loop"
    /\ valIndex < Len(sampled)
    /\ HasTargetOutput(MapGet(targetOutputs, sampled[valIndex + 1]))
    /\ \E passed \in BOOLEAN :
          valResults' = Append(valResults,
                               [entryId |-> sampled[valIndex + 1], passed |-> passed])
    /\ valEvaluations' = [valEvaluations EXCEPT ![valIndex + 1] = @ + 1]
    /\ valIndex' = valIndex + 1
    /\ UNCHANGED <<valEntries, targetOutputs, sampleSize, sampled, summary, vpc,
                   validateFrame>>

\* judge.evaluate rejects and so does validate
ValidateEvaluationThrows ==
    /\ vpc = "loop"
    /\ valIndex < Len(sampled)
    /\ HasTargetOutput(MapGet(targetOutputs, sampled[valIndex + 1]))
    /\ valEvaluations' = [valEvaluations EXCEPT ![valIndex + 1] = @ + 1]
    /\ vpc' = "rejected"
    /\ UNCHANGED <<valEntries, targetOutputs, sampleSize, sampled, valIndex, valResults,
                   summary, validateFrame>>

\* return this.summarize(results, categoryStats)
ValidateSummarizes ==
    /\ vpc = "loop"
    /\ valIndex >= Len(sampled)
    /\ summary' = Summarize(valResults)
    /\ vpc' = "returned"
    /\ UNCHANGED <<valEntries, targetOutputs, sampleSize, sampled, valIndex, valResults,
                   valEvaluations, validateFrame>>

NextValidate ==
    \/ ValidateStarts
    \/ ValidateSkips
    \/ ValidateEvaluates
    \/ ValidateEvaluationThrows
    \/ ValidateSummarizes

SpecValidate == InitValidate /\ [][NextValidate]_vars

\* the sampled places whose entry has a target output in the Map (a text
\* that is not empty: validate treats an empty one as not found)
WithTargetOutput ==
    {a \in 1..Len(sampled) :
        /\ sampled[a] \in DOMAIN targetOutputs
        /\ targetOutputs[sampled[a]] # ""}

\* C33: in every returned summary, each sampled entry with a target output
\* was evaluated exactly once and the others never, totalEntries is the
\* number of entries evaluated, and 0 <= passedEntries <= totalEntries <=
\* number of input entries.
C33_SummaryCountsEvaluated ==
    vpc = "returned" =>
        /\ \A a \in 1..Len(sampled) :
              valEvaluations[a] = IF a \in WithTargetOutput THEN 1 ELSE 0
        /\ summary.totalEntries = Cardinality(WithTargetOutput)
        /\ summary.totalEntries = Len(valResults)
        /\ 0 <= summary.passedEntries
        /\ summary.passedEntries <= summary.totalEntries
        /\ summary.totalEntries <= Len(valEntries)

\* a summary of a sample smaller than the input in which one entry was
\* skipped, one passed and one failed
C33_Witness ==
    /\ vpc = "returned"
    /\ Len(sampled) < Len(valEntries)
    /\ Cardinality(WithTargetOutput) < Len(sampled)
    /\ summary.totalEntries > summary.passedEntries
    /\ summary.passedEntries > 0

====
